---- MODULE Spec2Model ----
(***************************************************************************)
(* Model of yolox/utils/boxes.py: the box-geometry helpers filter_box,     *)
(* postprocess, bboxes_iou, matrix_iou, adjust_lmks_anns, xyxy2xywh and    *)
(* xyxy2cxcywh.                                                            *)
(*                                                                         *)
(* The functions are stateless; a behaviour is one call.  `args` holds the *)
(* caller's arguments as they were before the call, `bufs` the caller's    *)
(* buffers as they are after it (several functions write in place), `ret`  *)
(* the returned value and `call` the function that ran.                    *)
(*                                                                         *)
(* Arithmetic is exact.  A quotient is kept as the pair it is computed     *)
(* from, [num, den, eps]: num / (den + eps * 1e-12).  Coordinates that the *)
(* code halves are carried in half units (the operators say so).           *)
(***************************************************************************)
EXTENDS Integers, Sequences, FiniteSets

VARIABLES call, args, bufs, ret

vars == <<call, args, bufs, ret>>

\* ---------------------------------------------------------------- bounds
\* Box coordinates of the IoU inputs range over 0..MaxCoord.
MaxCoord == 2

\* ------------------------------------------------------------- arithmetic
Max2(x, y) == IF x >= y THEN x ELSE y
Min2(x, y) == IF x <= y THEN x ELSE y

\* torch.prod / np.prod over the last axis of a 2-vector
Prod2(v) == v[1] * v[2]

\* A quotient num / (den + eps * 1e-12), kept unevaluated.
Quot(n, d, e) == [num |-> n, den |-> d, eps |-> e]

\* The quotient is exactly 0: a zero numerator over a nonzero denominator.
IsZero(q) == q.num = 0 /\ (q.den # 0 \/ q.eps # 0)
\* The quotient is exactly 1: numerator and denominator are the same number.
IsOne(q) == q.eps = 0 /\ q.den # 0 /\ q.num = q.den
\* 0 / 0
IsNaN(q) == q.num = 0 /\ q.den = 0 /\ q.eps = 0

\* A computed batch of rows, as the sequence of its rows.
Tensor(s) == SubSeq(s, 1, Len(s))

\* F applied to the value of v, with v evaluated once.
Bind(v, F(_)) == CHOOSE y \in {F(x) : x \in {v}} : TRUE

\* Matrix helpers: a |A| x |B| matrix is a function of i then j.
Rows(A) == 1..Len(A)
Matrix(A, B, f(_, _)) == [i \in Rows(A) |-> [j \in Rows(B) |-> f(A[i], B[j])]]

\* ------------------------------------------------------------ bboxes_iou
\* Column slices of one row.  Corner form: [:2] and [2:] as they are.
\* Centre form: (c - wh / 2) and (c + wh / 2), carried in half units.
TopLeft(r, xyxy) ==
    IF xyxy THEN <<r[1], r[2]>> ELSE <<2 * r[1] - r[3], 2 * r[2] - r[4]>>
BottomRight(r, xyxy) ==
    IF xyxy THEN <<r[3], r[4]>> ELSE <<2 * r[1] + r[3], 2 * r[2] + r[4]>>

\* torch.max / torch.min of two broadcast 2-vectors: a fresh tensor.
VMax(u, v) == <<Max2(u[1], v[1]), Max2(u[2], v[2])>>
VMin(u, v) == <<Min2(u[1], v[1]), Min2(u[2], v[2])>>
VSub(u, v) == <<u[1] - v[1], u[2] - v[2]>>
VClampMin0(u) == <<Max2(u[1], 0), Max2(u[2], 0)>>

\* area_a / area_b of one row, in the units of the intersection area:
\* corner form prod(r[2:] - r[:2]); centre form prod(r[2:]), times 4 because
\* the intersection extents are in half units.
BoxArea_WH_ONLY(r, xyxy) ==
    IF xyxy THEN r[3] * r[4] ELSE 4 * (r[3] * r[4])
BoxArea(r, xyxy) ==
    IF xyxy THEN (r[3] - r[1]) * (r[4] - r[2]) ELSE 4 * (r[3] * r[4])

\* In-place tensor operations on a named buffer of the heap h.
sub_REVERSED(h, dst, src) ==
    [h EXCEPT ![dst] = [i \in DOMAIN h[dst] |->
                          [j \in DOMAIN h[dst][i] |-> VSub(h[src][i][j], h[dst][i][j])]]]
sub_(h, dst, src) ==
    [h EXCEPT ![dst] = [i \in DOMAIN h[dst] |->
                          [j \in DOMAIN h[dst][i] |-> VSub(h[dst][i][j], h[src][i][j])]]]
clamp_min_0_MISSING(h, dst) == h
clamp_min_0(h, dst) ==
    [h EXCEPT ![dst] = [i \in DOMAIN h[dst] |->
                          [j \in DOMAIN h[dst][i] |-> VClampMin0(h[dst][i][j])]]]
div_(h, dst, src) ==
    [h EXCEPT ![dst] = [i \in DOMAIN h[dst] |->
                          [j \in DOMAIN h[dst][i] |->
                             Quot(h[dst][i][j], h[src][i][j], 0)]]]

\* The inplace=True branch.  The heap holds the caller's tensors A and B and
\* the scratch tensors the branch allocates; the result is the final heap.
bboxes_iou_inplace(A, B, xyxy) ==
    LET h0 == [A |-> A, B |-> B,
               tl    |-> Matrix(A, B, LAMBDA a, b : VMax(TopLeft(a, xyxy), TopLeft(b, xyxy))),
               br_hw |-> Matrix(A, B, LAMBDA a, b : VMin(BottomRight(a, xyxy), BottomRight(b, xyxy))),
               area_ious |-> <<>>, union |-> <<>>]
        h1 == sub_(h0, "br_hw", "tl")
        h2 == clamp_min_0(h1, "br_hw")
        h3 == [h2 EXCEPT !.area_ious = [i \in Rows(A) |-> [j \in Rows(B) |-> Prod2(h2.br_hw[i][j])]]]
        h4 == [h3 EXCEPT !.union = [i \in Rows(A) |-> [j \in Rows(B) |->
                                       BoxArea(A[i], xyxy) + BoxArea(B[j], xyxy) - h3.area_ious[i][j]]]]
    IN  div_(h4, "area_ious", "union")

\* The inplace=False branch: every intermediate is a fresh value.
bboxes_iou_fresh(A, B, xyxy) ==
    Matrix(A, B, LAMBDA a, b :
        LET tl == VMax(TopLeft(a, xyxy), TopLeft(b, xyxy))
            br == VMin(BottomRight(a, xyxy), BottomRight(b, xyxy))
            area_a == BoxArea(a, xyxy)
            area_b == BoxArea(b, xyxy)
            hw == VClampMin0(VSub(br, tl))
            area_i == Prod2(hw)
        IN  Quot(area_i, area_a + area_b - area_i, 0))

\* bboxes_iou(bboxes_a, bboxes_b, xyxy, inplace): the returned matrix and the
\* caller's two tensors after the call.  (Inputs here always have 4 columns.)
bboxes_iou(A, B, xyxy, inplace) ==
    IF inplace
    THEN LET h == bboxes_iou_inplace(A, B, xyxy)
         IN  [ret |-> h.area_ious, A |-> h.A, B |-> h.B]
    ELSE [ret |-> bboxes_iou_fresh(A, B, xyxy), A |-> A, B |-> B]

\* ------------------------------------------------------------ matrix_iou
\* (lt < rb).all(axis=2)
StrictMask_ANY(lt, rb) == IF lt[1] < rb[1] \/ lt[2] < rb[2] THEN 1 ELSE 0
StrictMask(lt, rb) == IF lt[1] < rb[1] /\ lt[2] < rb[2] THEN 1 ELSE 0

matrix_iou_area_i(a, b) ==
    LET lt == VMax(<<a[1], a[2]>>, <<b[1], b[2]>>)
        rb == VMin(<<a[3], a[4]>>, <<b[3], b[4]>>)
    IN  Prod2(VSub(rb, lt)) * StrictMask(lt, rb)

matrix_iou(A, B) ==
    Matrix(A, B, LAMBDA a, b :
        LET area_i == matrix_iou_area_i(a, b)
            area_a == (a[3] - a[1]) * (a[4] - a[2])
            area_b == (b[3] - b[1]) * (b[4] - b[2])
        IN  Quot(area_i, area_a + area_b - area_i, 1))

\* ---------------------------------------------------- IoU: calls and inputs
Coords == 0..MaxCoord
Boxes4 == {<<p, q, r, s>> : p \in Coords, q \in Coords, r \in Coords, s \in Coords}
\* A second row for the first argument, so that the result is a real matrix.
SecondRows == {<<0, 0, MaxCoord, MaxCoord>>}
BatchesA == {<<a>> : a \in Boxes4} \cup {<<a, r>> : a \in Boxes4, r \in SecondRows}
BatchesB == {<<b>> : b \in Boxes4}

InitIoU ==
    /\ call = <<"init">>
    /\ args \in [A : BatchesA, B : BatchesB]
    /\ bufs = args
    /\ ret = <<>>

Call_bboxes_iou ==
    /\ call = <<"init">>
    /\ \E xyxy \in BOOLEAN, inplace \in BOOLEAN :
          LET r == bboxes_iou(args.A, args.B, xyxy, inplace)
          IN  /\ call' = <<"bboxes_iou", xyxy, inplace>>
              /\ ret' = r.ret
              /\ bufs' = [A |-> r.A, B |-> r.B]
    /\ UNCHANGED args

Call_matrix_iou ==
    /\ call = <<"init">>
    /\ call' = <<"matrix_iou">>
    /\ ret' = matrix_iou(args.A, args.B)
    /\ bufs' = args
    /\ UNCHANGED args

NextIoU == Call_bboxes_iou \/ Call_matrix_iou

SpecIoU == InitIoU /\ [][NextIoU]_vars

\* ------------------------------------------------------------ filter_box
\* output[keep]: boolean-mask row selection, order preserved.
RECURSIVE SelectByMask(_, _)
SelectByMask(rows, keep) ==
    IF rows = <<>> THEN <<>>
    ELSE (IF Head(keep) THEN <<Head(rows)>> ELSE <<>>)
         \o SelectByMask(Tail(rows), Tail(keep))

filter_box_keep_INCLUSIVE(row, min_scale, max_scale) ==
    LET w == row[3] - row[1]
        h == row[4] - row[2]
    IN  (w * h >= min_scale * min_scale) /\ (w * h < max_scale * max_scale)
filter_box_keep(row, min_scale, max_scale) ==
    LET w == row[3] - row[1]
        h == row[4] - row[2]
    IN  (w * h > min_scale * min_scale) /\ (w * h < max_scale * max_scale)

filter_box(output, scale_range) ==
    LET min_scale == scale_range[1]
        max_scale == scale_range[2]
        keep == [i \in 1..Len(output) |-> filter_box_keep(output[i], min_scale, max_scale)]
    IN  SelectByMask(output, keep)

\* Rows of the filter's input: corner coordinates in 0..MaxFilterCoord and one
\* trailing column (the rows are (N, 5 + class) wide; one extra column stands
\* for them).
MaxFilterCoord == 2
FilterCoords == 0..MaxFilterCoord
FilterRows == {<<p, q, r, s, 7>> : p \in FilterCoords, q \in FilterCoords,
                                   r \in FilterCoords, s \in FilterCoords}
FilterInputs == {<<>>} \cup {<<a>> : a \in FilterRows}
                       \cup {<<a, b>> : a \in FilterRows, b \in FilterRows}
ScaleRanges == {<<0, 1>>, <<0, 2>>, <<1, 2>>, <<1, 1>>}

InitFilter ==
    /\ call = <<"init">>
    /\ args \in [output : FilterInputs, scale_range : ScaleRanges]
    /\ bufs = args
    /\ ret = <<>>

Call_filter_box ==
    /\ call = <<"init">>
    /\ call' = <<"filter_box">>
    /\ ret' = filter_box(args.output, args.scale_range)
    /\ bufs' = args
    /\ UNCHANGED args

NextFilter == Call_filter_box

SpecFilter == InitFilter /\ [][NextFilter]_vars

\* ------------------------------------------------- xyxy2xywh, xyxy2cxcywh
\* A numpy buffer is [dtype, rows].  Its values are carried in half units
\* (a stored 3 is 6, a stored 2.5 is 5), so that the halves xyxy2cxcywh
\* produces are integers of the model.  An integer buffer holds whole
\* numbers only: storing into it truncates toward zero, as numpy's
\* assignment of a float64 value into an integer array does.
Trunc(v) == IF v >= 0 THEN v - (v % 2) ELSE v + (v % 2)
Store(dtype, v) == IF dtype = "int" THEN Trunc(v) ELSE v

\* bboxes[:, 2] = bboxes[:, 2] - bboxes[:, 0]; bboxes[:, 3] likewise.
xyxy2xywh_row(dtype, r) ==
    LET r1 == [r  EXCEPT ![3] = Store(dtype, r[3] - r[1])]
        r2 == [r1 EXCEPT ![4] = Store(dtype, r1[4] - r1[2])]
    IN  r2

xyxy2xywh(bboxes) ==
    [bboxes EXCEPT !.rows = [i \in 1..Len(bboxes.rows) |->
                               xyxy2xywh_row(bboxes.dtype, bboxes.rows[i])]]

\* Width and height first, then the centre from the overwritten columns.
\* The width column holds a whole number (an even count of half units), so
\* its product with 0.5 is r[3] \div 2 half units, exactly.
xyxy2cxcywh_row_CENTRE_FIRST(dtype, r) ==
    LET r1 == [r  EXCEPT ![1] = Store(dtype, r[1] + r[3] \div 2)]
        r2 == [r1 EXCEPT ![2] = Store(dtype, r1[2] + r1[4] \div 2)]
        r3 == [r2 EXCEPT ![3] = Store(dtype, r2[3] - r2[1])]
        r4 == [r3 EXCEPT ![4] = Store(dtype, r3[4] - r3[2])]
    IN  r4
xyxy2cxcywh_row(dtype, r) ==
    LET r1 == [r  EXCEPT ![3] = Store(dtype, r[3] - r[1])]
        r2 == [r1 EXCEPT ![4] = Store(dtype, r1[4] - r1[2])]
        r3 == [r2 EXCEPT ![1] = Store(dtype, r2[1] + r2[3] \div 2)]
        r4 == [r3 EXCEPT ![2] = Store(dtype, r3[2] + r3[4] \div 2)]
    IN  r4

xyxy2cxcywh(bboxes) ==
    [bboxes EXCEPT !.rows = [i \in 1..Len(bboxes.rows) |->
                               xyxy2cxcywh_row(bboxes.dtype, bboxes.rows[i])]]
\* Corner boxes with whole coordinates in -1..MaxConvCoord, in either buffer
\* type; an optional second row makes the buffer a batch.
MaxConvCoord == 2
ConvCoords == (-1)..MaxConvCoord
ConvRows == {<<2 * p, 2 * q, 2 * r, 2 * s>> :
                p \in ConvCoords, q \in ConvCoords, r \in ConvCoords, s \in ConvCoords}
ConvBatches == {<<a>> : a \in ConvRows} \cup {<<a, <<0, 2, 6, 4>> >> : a \in ConvRows}

InitConv ==
    /\ call = <<"init">>
    /\ args \in [dtype : {"int", "float"}, rows : ConvBatches]
    /\ bufs = args
    /\ ret = <<>>

\* Both conversions write into the caller's buffer and return that buffer.
Call_xyxy2xywh ==
    /\ call = <<"init">>
    /\ call' = <<"xyxy2xywh">>
    /\ bufs' = xyxy2xywh(args)
    /\ ret' = bufs'
    /\ UNCHANGED args

Call_xyxy2cxcywh ==
    /\ call = <<"init">>
    /\ call' = <<"xyxy2cxcywh">>
    /\ bufs' = xyxy2cxcywh(args)
    /\ ret' = bufs'
    /\ UNCHANGED args

NextConv == Call_xyxy2xywh \/ Call_xyxy2cxcywh

SpecConv == InitConv /\ [][NextConv]_vars

\* ------------------------------------------------------ adjust_lmks_anns
\* landmarks is a floating array of rows of (x, y) pairs; whole-number
\* inputs.  scale_ratio is given in halves (scale2 = 2 * scale_ratio), and
\* every value after the transform is carried in half units.
\* mask_landmarks = np.array(landmarks > 0, dtype=np.int32), per coordinate.
mask_landmarks_GE(v) == IF v >= 0 THEN 1 ELSE 0
mask_landmarks(v) == IF v > 0 THEN 1 ELSE 0

\* landmarks[:, 0::2] = landmarks[:, 0::2] * scale_ratio + padw, and the odd
\* columns with padh: column c (1-based) is an x when c is odd.
Transform(row, scale2, padw, padh) ==
    [c \in 1..Len(row) |->
        row[c] * scale2 + 2 * (IF c % 2 = 1 THEN padw ELSE padh)]

\* landmarks * mask_landmarks + mask_landmarks - 1 (the -1 is -2 half units)
Masked(trow, mrow) ==
    [c \in 1..Len(trow) |-> trow[c] * mrow[c] + 2 * mrow[c] - 2]

\* The loop over the points of one row: a point outside the region has both
\* its coordinates set to -1.
OutOfRegion(x, y, w_max, h_max) ==
    x < 0 \/ y < 0 \/ x > 2 * w_max \/ y > 2 * h_max

BoundsPass(row, w_max, h_max) ==
    [c \in 1..Len(row) |->
        LET k == (c - 1) \div 2
            x == row[2 * k + 1]
            y == row[2 * k + 2]
        IN  IF OutOfRegion(x, y, w_max, h_max) THEN -2 ELSE row[c]]

\* The returned array and the caller's array after the call: the transform
\* is written into the caller's array, the masked array is a new one.
adjust_lmks_anns(landmarks, scale2, padw, padh, w_max, h_max) ==
    LET mask == [j \in 1..Len(landmarks) |->
                    [c \in 1..Len(landmarks[j]) |-> mask_landmarks(landmarks[j][c])]]
        moved == [j \in 1..Len(landmarks) |-> Transform(landmarks[j], scale2, padw, padh)]
        fresh == [j \in 1..Len(landmarks) |-> Masked(moved[j], mask[j])]
    IN  [ret |-> [j \in 1..Len(landmarks) |-> BoundsPass(fresh[j], w_max, h_max)],
         landmarks |-> moved]

MaxLmk == 2
MaxScale2 == 3
LmkCoords == (-1)..MaxLmk
LmkRows == {<<p, q, r, s>> : p \in LmkCoords, q \in LmkCoords,
                             r \in LmkCoords, s \in LmkCoords}
LmkBatches == {<<a>> : a \in LmkRows} \cup {<<a, <<1, 1, 0, 2>> >> : a \in LmkRows}
Pads == {-1, 0, 1}
Extents == {1, 2}

InitLmks ==
    /\ call = <<"init">>
    /\ args \in [landmarks : LmkBatches, scale2 : 1..MaxScale2,
                  padw : Pads, padh : Pads, w_max : Extents, h_max : Extents]
    /\ bufs = args
    /\ ret = <<>>

Call_adjust_lmks_anns ==
    /\ call = <<"init">>
    /\ LET r == adjust_lmks_anns(args.landmarks, args.scale2, args.padw, args.padh,
                                 args.w_max, args.h_max)
       IN  /\ ret' = r.ret
           /\ bufs' = [args EXCEPT !.landmarks = r.landmarks]
    /\ call' = <<"adjust_lmks_anns">>
    /\ UNCHANGED args

NextLmks == Call_adjust_lmks_anns

SpecLmks == InitLmks /\ [][NextLmks]_vars

\* ------------------------------------------------------------ postprocess
\* A prediction row is <<cx, cy, w, h, obj, cls_1 .. cls_n, extra>>.  Scores
\* are numerators over MaxScore, so a fused confidence obj * class_conf is a
\* numerator over MaxScore^2 and conf_thre is given as such a numerator.
\* nms_thre is a pair <<p, q>> for p / q.  Corner coordinates are carried in
\* half units.  NoDetections is the None of the returned list.
NoDetections == "None"

\* Lines 35-40: centre form to corner form, written into the caller's tensor.
box_corner(row) ==
    <<2 * row[1] - row[3], 2 * row[2] - row[4],
      2 * row[1] + row[3], 2 * row[2] + row[4]>> \o SubSeq(row, 5, Len(row))

\* torch.max(image_pred[:, 5 : 5 + num_classes], 1): the best class score
\* and the (0-based) index of its first occurrence.
RECURSIVE MaxOf(_)
MaxOf(v) == IF Len(v) = 1 THEN v[1] ELSE Max2(v[1], MaxOf(Tail(v)))
class_conf(row, num_classes) == MaxOf(SubSeq(row, 6, 5 + num_classes))
class_pred(row, num_classes) ==
    LET best == class_conf(row, num_classes)
    IN  (CHOOSE k \in 1..num_classes :
            /\ row[5 + k] = best
            /\ \A l \in 1..(k - 1) : row[5 + l] # best) - 1

\* image_pred[:, 4] * class_conf >= conf_thre
conf_mask_STRICT(row, num_classes, conf_thre) ==
    row[5] * class_conf(row, num_classes) > conf_thre
conf_mask(row, num_classes, conf_thre) ==
    row[5] * class_conf(row, num_classes) >= conf_thre

\* (x1, y1, x2, y2, obj_conf, class_conf, class_pred [, the extra columns])
detection(row, num_classes, extras) ==
    SubSeq(row, 1, 5)
    \o <<class_conf(row, num_classes), class_pred(row, num_classes)>>
    \o (IF extras THEN SubSeq(row, 6 + num_classes, Len(row)) ELSE <<>>)

\* The score handed to the suppression: detections[:, 4] * detections[:, 5]
nms_score_OBJ_ONLY(det) == det[5]
nms_score(det) == det[5] * det[6]

\* --- torchvision.ops.nms / batched_nms, by their contract ----------------
\* IoU of two corner boxes exceeds p / q (a 0 / 0 compares false).
IoUExceeds(a, b, thre) ==
    LET w == Max2(Min2(a[3], b[3]) - Max2(a[1], b[1]), 0)
        h == Max2(Min2(a[4], b[4]) - Max2(a[2], b[2]), 0)
        inter == w * h
        union == (a[3] - a[1]) * (a[4] - a[2]) + (b[3] - b[1]) * (b[4] - b[2]) - inter
    IN  union > 0 /\ inter * thre[2] > thre[1] * union

\* Indices by descending score, equal scores in index order.
RECURSIVE ByScore(_, _)
ByScore(idx, scores) ==
    IF idx = {} THEN <<>>
    ELSE LET best == CHOOSE i \in idx :
                        \A j \in idx : scores[i] > scores[j]
                                        \/ (scores[i] = scores[j] /\ i <= j)
         IN  <<best>> \o ByScore(idx \ {best}, scores)

\* Select the best remaining index, drop every remaining one whose IoU with
\* it exceeds the threshold, repeat.
RECURSIVE Suppress(_, _, _)
Suppress(order, boxes, thre) ==
    IF order = <<>> THEN <<>>
    ELSE LET i == Head(order)
         IN  <<i>> \o Suppress(SelectSeq(Tail(order),
                                  LAMBDA j : ~IoUExceeds(boxes[i], boxes[j], thre)),
                                boxes, thre)

nms(boxes, scores, thre) == Suppress(ByScore(DOMAIN boxes, scores), boxes, thre)

\* Suppression within each category apart; the kept indices by descending score.
batched_nms(boxes, scores, idxs, thre) ==
    LET keptOf(c) == LET members == {i \in DOMAIN boxes : idxs[i] = c}
                         keep == Suppress(ByScore(members, scores), boxes, thre)
                     IN  {keep[k] : k \in 1..Len(keep)}
        kept == UNION {keptOf(c) : c \in {idxs[i] : i \in DOMAIN boxes}}
    IN  ByScore(kept, scores)

\* Lines 66-78: the suppression postprocess asks for.
nms_out_index_ALWAYS_AGNOSTIC(detections, nms_thre, class_agnostic) ==
    nms(Tensor([i \in 1..Len(detections) |-> SubSeq(detections[i], 1, 4)]),
        Tensor([i \in 1..Len(detections) |-> nms_score(detections[i])]),
        nms_thre)
nms_out_index(detections, nms_thre, class_agnostic) ==
    Bind(<<Tensor([i \in 1..Len(detections) |-> SubSeq(detections[i], 1, 4)]),
           Tensor([i \in 1..Len(detections) |-> nms_score(detections[i])]),
           Tensor([i \in 1..Len(detections) |-> detections[i][7]])>>,
         LAMBDA t :
           IF class_agnostic
           THEN nms(t[1], t[2], nms_thre)
           ELSE batched_nms(t[1], t[2], t[3], nms_thre))

\* One pass of the loop body (lines 43-84) for one image whose boxes are
\* already in corner form: the image's entry of the output and whether the
\* suppression was called.
postprocess_image(image_pred, num_classes, conf_thre, nms_thre, class_agnostic, extras) ==
    IF Len(image_pred) = 0 THEN [output |-> NoDetections, nms_called |-> FALSE]
    ELSE
    LET mask == Tensor([i \in 1..Len(image_pred) |->
                          conf_mask(image_pred[i], num_classes, conf_thre)])
        all  == Tensor([i \in 1..Len(image_pred) |->
                          detection(image_pred[i], num_classes, extras)])
    IN  Bind(SelectByMask(all, mask), LAMBDA detections :
          IF Len(detections) = 0 THEN [output |-> NoDetections, nms_called |-> FALSE]
          ELSE Bind(nms_out_index(detections, nms_thre, class_agnostic), LAMBDA index :
                 [output |-> Tensor([k \in 1..Len(index) |-> detections[index[k]]]),
                  nms_called |-> TRUE]))

\* Lines 35-40 over the whole batch.
to_corner(prediction) ==
    Tensor([i \in 1..Len(prediction) |->
              Tensor([r \in 1..Len(prediction[i]) |-> box_corner(prediction[i][r])])])

\* postprocess(prediction, num_classes, conf_thre, nms_thre, class_agnostic,
\* keypoints, segs): the caller's prediction tensor after the call, the
\* returned list, and for which images the suppression ran.
postprocess(prediction, num_classes, conf_thre, nms_thre, class_agnostic, keypoints, segs) ==
    Bind(to_corner(prediction), LAMBDA corner :
      Bind(Tensor([i \in 1..Len(corner) |->
                     postprocess_image(corner[i], num_classes, conf_thre, nms_thre,
                                       class_agnostic, keypoints \/ segs)]),
           LAMBDA each :
             [prediction |-> corner,
              output |-> Tensor([i \in 1..Len(each) |-> each[i].output]),
              nms_called |-> Tensor([i \in 1..Len(each) |-> each[i].nms_called])]))

\* Inputs: two classes; boxes of width and height 2 whose centres lie on a
\* line at 0..MaxCx; an image is three candidate rows; a batch is such an
\* image followed by a fixed second one, or one image without rows.
MaxCx == 2
MaxScore == 2
ScorePairs == {<<MaxScore, MaxScore>>, <<MaxScore, 1>>, <<1, 1>>}
PredRows == {<<cx, 0, 2, 2, sp[1], sp[2], 0, 9>> : cx \in 0..MaxCx, sp \in ScorePairs}
            \cup {<<cx, 0, 2, 2, sp[1], 0, sp[2], 9>> : cx \in 0..MaxCx, sp \in ScorePairs}
Images == {<<r1, r2, r3>> : r1 \in PredRows, r2 \in PredRows, r3 \in PredRows}
SecondImage == << <<0, 0, 2, 2, 1, 1, 0, 9>>, <<1, 0, 2, 2, 1, 0, 1, 9>>,
                  <<1, 0, 2, 2, 1, 1, 0, 9>> >>
Predictions == {<<im, SecondImage>> : im \in Images} \cup {<< <<>> >>}
\* conf_thre below every fused confidence, equal to one, above all.
ConfThres == {1, MaxScore, MaxScore * MaxScore + 1}
NmsThres == {<<1, 3>>, <<1, 2>>}

InitPost ==
    /\ call = <<"init">>
    /\ args \in [prediction : Predictions, num_classes : {2}, conf_thre : ConfThres,
                  nms_thre : NmsThres, class_agnostic : BOOLEAN,
                  keypoints : BOOLEAN, segs : {FALSE}]
    /\ bufs = args
    /\ ret = <<>>

Call_postprocess ==
    /\ call = <<"init">>
    /\ \E r \in {postprocess(args.prediction, args.num_classes, args.conf_thre,
                               args.nms_thre, args.class_agnostic, args.keypoints,
                               args.segs)} :
          /\ ret' = [output |-> r.output, nms_called |-> r.nms_called]
          /\ bufs' = [args EXCEPT !.prediction = r.prediction]
    /\ call' = <<"postprocess">>
    /\ UNCHANGED args

NextPost == Call_postprocess

SpecPost == InitPost /\ [][NextPost]_vars

\* ======================================================================
\*                               Properties
\* ======================================================================

\* ------------------------------------------------ postprocess: vocabulary
PostDone == call = <<"postprocess">>
ImageIds == 1..Len(args.prediction)
\* The rows of image i in corner form, as the loop reads them.
CornerRows(i) == bufs.prediction[i]
RowIds(i) == 1..Len(CornerRows(i))
\* objectness x best class score, and the class that score belongs to
Fused(row) == row[5] * Max2(row[6], row[7])
ClassId(row) == IF row[6] >= row[7] THEN 0 ELSE 1
Passing(i) == {r \in RowIds(i) : Fused(CornerRows(i)[r]) >= args.conf_thre}
\* Row r of image i is among the rows returned for image i.
InResult(i, r) ==
    /\ ret.output[i] # NoDetections
    /\ \E k \in 1..Len(ret.output[i]) :
          LET d == ret.output[i][k]
              row == CornerRows(i)[r]
          IN  /\ SubSeq(d, 1, 5) = SubSeq(row, 1, 5)
              /\ d[6] = Max2(row[6], row[7])
              /\ d[7] = ClassId(row)
\* IoU of the boxes of two rows exceeds nms_thre.
Overlaps(i, r, s) ==
    LET q == bboxes_iou_fresh(<<SubSeq(CornerRows(i)[r], 1, 4)>>,
                              <<SubSeq(CornerRows(i)[s], 1, 4)>>, TRUE)[1][1]
    IN  q.den > 0 /\ q.num * args.nms_thre[2] > args.nms_thre[1] * q.den
SameGroup(i, r, s) ==
    args.class_agnostic \/ ClassId(CornerRows(i)[r]) = ClassId(CornerRows(i)[s])

\* C1 as stated: of two candidates that pass the confidence filter and differ
\* in fused score, only the higher-scoring one is returned when their IoU
\* exceeds nms_thre, and both are returned when it does not.
C1_PairwiseNms ==
    PostDone =>
      \A i \in ImageIds : \A a \in Passing(i) : \A b \in Passing(i) :
        Fused(CornerRows(i)[a]) > Fused(CornerRows(i)[b]) =>
          IF Overlaps(i, a, b)
          THEN InResult(i, a) /\ ~InResult(i, b)
          ELSE InResult(i, a) /\ InResult(i, b)

\* C1 amended: when the two are the only candidates of the image that pass
\* the filter, only the higher-scoring one is returned if their IoU exceeds
\* nms_thre and they are suppressed together (class_agnostic, or equal class
\* ids), and both are returned otherwise; with further candidates the two
\* are still never both returned when their IoU exceeds nms_thre and they
\* are suppressed together.
C1_PairwiseNmsAmended ==
    PostDone =>
      \A i \in ImageIds : \A a \in Passing(i) : \A b \in Passing(i) :
        Fused(CornerRows(i)[a]) > Fused(CornerRows(i)[b]) =>
          /\ Passing(i) = {a, b} =>
                IF Overlaps(i, a, b) /\ SameGroup(i, a, b)
                THEN InResult(i, a) /\ ~InResult(i, b)
                ELSE InResult(i, a) /\ InResult(i, b)
          /\ (Overlaps(i, a, b) /\ SameGroup(i, a, b)) =>
                ~(InResult(i, a) /\ InResult(i, b))

C1_Witness ==
    /\ PostDone
    /\ \E a \in Passing(1) : \E b \in Passing(1) :
          /\ Passing(1) = {a, b}
          /\ Fused(CornerRows(1)[a]) > Fused(CornerRows(1)[b])
          /\ Overlaps(1, a, b) /\ SameGroup(1, a, b)
          /\ InResult(1, a) /\ ~InResult(1, b)

\* C2: a row goes on to the suppression exactly when objectness x best class
\* score >= conf_thre (equality included): every returned row passes, and
\* every passing row is returned or overlaps a returned row by more than
\* nms_thre; an image none of whose rows pass has the entry None and the
\* suppression is not called for it.
C2_ConfidenceFilter ==
    PostDone =>
      \A i \in ImageIds :
        /\ \A r \in RowIds(i) : InResult(i, r) => r \in Passing(i)
        /\ \A r \in Passing(i) :
              InResult(i, r)
              \/ \E s \in Passing(i) : s # r /\ InResult(i, s) /\ Overlaps(i, s, r)
        /\ Passing(i) = {} => ret.output[i] = NoDetections /\ ~ret.nms_called[i]
        /\ Passing(i) # {} => ret.output[i] # NoDetections /\ ret.nms_called[i]

\* A row whose fused confidence equals conf_thre is returned, next to an
\* image with no passing row.
C2_Witness ==
    /\ PostDone
    /\ \E r \in Passing(1) :
          Fused(CornerRows(1)[r]) = args.conf_thre /\ InResult(1, r)
    /\ \E i \in ImageIds : Passing(i) = {} /\ ret.output[i] = NoDetections

\* C3: without class_agnostic a candidate is missing from the result only
\* because of a returned candidate of its own class: a missing candidate has
\* a returned candidate of its class, not lower in score, overlapping it by
\* more than nms_thre, and a candidate that no candidate of its class
\* overlaps by more than nms_thre is returned whatever overlaps it from other
\* classes.  With class_agnostic a returned candidate excludes every
\* lower-scoring candidate it overlaps by more than nms_thre, of any class.
C3_ClassPartition ==
    PostDone =>
      \A i \in ImageIds :
        IF ~args.class_agnostic
        THEN \A r \in Passing(i) :
               /\ ~InResult(i, r) =>
                     \E s \in Passing(i) :
                        /\ s # r /\ InResult(i, s) /\ Overlaps(i, s, r)
                        /\ ClassId(CornerRows(i)[s]) = ClassId(CornerRows(i)[r])
                        /\ Fused(CornerRows(i)[s]) >= Fused(CornerRows(i)[r])
               /\ (\A s \in Passing(i) \ {r} :
                      ClassId(CornerRows(i)[s]) = ClassId(CornerRows(i)[r])
                         => ~Overlaps(i, s, r))
                     => InResult(i, r)
        ELSE \A s \in Passing(i) : \A r \in Passing(i) :
               (InResult(i, s) /\ Overlaps(i, s, r)
                  /\ Fused(CornerRows(i)[s]) > Fused(CornerRows(i)[r]))
                 => ~InResult(i, r)

\* Two candidates of different classes, one on top of the other, both returned.
C3_Witness ==
    /\ PostDone /\ ~args.class_agnostic
    /\ \E a \in Passing(1) : \E b \in Passing(1) :
          /\ ClassId(CornerRows(1)[a]) # ClassId(CornerRows(1)[b])
          /\ Fused(CornerRows(1)[a]) > Fused(CornerRows(1)[b])
          /\ Overlaps(1, a, b)
          /\ InResult(1, a) /\ InResult(1, b)

\* ------------------------------------------------------------ filter_box
FilterDone == call = <<"filter_box">>
Qualifies(row) ==
    LET area == (row[3] - row[1]) * (row[4] - row[2])
    IN  /\ args.scale_range[1] * args.scale_range[1] < area
        /\ area < args.scale_range[2] * args.scale_range[2]

\* C4: filter_box returns exactly the rows with min_scale^2 < area <
\* max_scale^2, in their original order; an area equal to either square is
\* excluded, and no qualifying row gives the empty result.
C4_FilterBox ==
    FilterDone =>
      /\ ret = SelectSeq(args.output, Qualifies)
      /\ bufs = args

C4_Witness ==
    /\ FilterDone
    /\ Len(args.output) = 2 /\ Len(ret) = 1 /\ ret[1] = args.output[2]
    /\ (args.output[1][3] - args.output[1][1]) * (args.output[1][4] - args.output[1][2])
          = args.scale_range[1] * args.scale_range[1]
    /\ args.scale_range[1] > 0

\* ------------------------------------------------------------------- IoU
BboxesIouDone == call[1] = "bboxes_iou"
MatrixIouDone == call = <<"matrix_iou">>
\* The intersection rectangle has no positive extent in some axis.
NonOverlap(a, b, xyxy) ==
    LET d == VSub(VMin(BottomRight(a, xyxy), BottomRight(b, xyxy)),
                  VMax(TopLeft(a, xyxy), TopLeft(b, xyxy)))
    IN  d[1] <= 0 \/ d[2] <= 0
NonDegenerate(a, xyxy) ==
    IF xyxy THEN a[3] > a[1] /\ a[4] > a[2] ELSE a[3] > 0 /\ a[4] > 0

\* C5 as stated: every non-overlapping pair has IoU exactly 0, in bboxes_iou
\* (both formats, both inplace settings) and in matrix_iou.
C5_NonOverlapZero ==
    /\ BboxesIouDone =>
          \A i \in Rows(args.A) : \A j \in Rows(args.B) :
             NonOverlap(args.A[i], args.B[j], call[2]) => IsZero(ret[i][j])
    /\ MatrixIouDone =>
          \A i \in Rows(args.A) : \A j \in Rows(args.B) :
             NonOverlap(args.A[i], args.B[j], TRUE) => IsZero(ret[i][j])

\* C5 amended: for a non-overlapping pair matrix_iou gives exactly 0, and
\* bboxes_iou gives exactly 0 unless the two areas sum to zero (two zero-area
\* boxes, for one), where it gives 0 / 0.
C5_NonOverlapZeroAmended ==
    /\ BboxesIouDone =>
          \A i \in Rows(args.A) : \A j \in Rows(args.B) :
             NonOverlap(args.A[i], args.B[j], call[2]) =>
                IF BoxArea(args.A[i], call[2]) + BoxArea(args.B[j], call[2]) # 0
                THEN IsZero(ret[i][j])
                ELSE IsNaN(ret[i][j])
    /\ MatrixIouDone =>
          \A i \in Rows(args.A) : \A j \in Rows(args.B) :
             NonOverlap(args.A[i], args.B[j], TRUE) => IsZero(ret[i][j])

\* Two proper boxes apart in one axis only, IoU 0.
C5_Witness ==
    /\ BboxesIouDone /\ call[2]
    /\ NonDegenerate(args.A[1], TRUE) /\ NonDegenerate(args.B[1], TRUE)
    /\ args.A[1][3] <= args.B[1][1] /\ args.A[1][2] = args.B[1][2]
    /\ IsZero(ret[1][1])

\* C6 as stated: a non-degenerate box against itself has IoU exactly 1, in
\* bboxes_iou (corner and centre form) and in matrix_iou.
C6_SelfIouOne ==
    /\ BboxesIouDone =>
          \A i \in Rows(args.A) : \A j \in Rows(args.B) :
             (args.A[i] = args.B[j] /\ NonDegenerate(args.A[i], call[2]))
                => IsOne(ret[i][j])
    /\ MatrixIouDone =>
          \A i \in Rows(args.A) : \A j \in Rows(args.B) :
             (args.A[i] = args.B[j] /\ NonDegenerate(args.A[i], TRUE))
                => IsOne(ret[i][j])

\* C6 amended: a non-degenerate box against itself has IoU exactly 1 in
\* bboxes_iou (corner and centre form); in matrix_iou the intersection is the
\* box's area and the denominator is that area plus 1e-12, so the quotient
\* is below 1 by the epsilon.
C6_SelfIouOneAmended ==
    /\ BboxesIouDone =>
          \A i \in Rows(args.A) : \A j \in Rows(args.B) :
             (args.A[i] = args.B[j] /\ NonDegenerate(args.A[i], call[2]))
                => IsOne(ret[i][j]) /\ ret[i][j].num = BoxArea(args.A[i], call[2])
    /\ MatrixIouDone =>
          \A i \in Rows(args.A) : \A j \in Rows(args.B) :
             (args.A[i] = args.B[j] /\ NonDegenerate(args.A[i], TRUE))
                => /\ ret[i][j].num = (args.A[i][3] - args.A[i][1]) * (args.A[i][4] - args.A[i][2])
                   /\ ret[i][j].den = ret[i][j].num
                   /\ ret[i][j].eps = 1

\* A centre-form box of odd width against itself.
C6_Witness ==
    /\ BboxesIouDone /\ ~call[2]
    /\ args.A[1] = args.B[1] /\ args.A[1][3] = 1 /\ args.A[1][4] > 0
    /\ IsOne(ret[1][1])

\* C9: for either format, inplace=True and inplace=False return the same
\* matrix, and neither changes the caller's two tensors.
C9_InplaceEquivalent ==
    BboxesIouDone =>
      /\ ret = bboxes_iou(args.A, args.B, call[2], ~call[3]).ret
      /\ bufs = args

\* A two-row first argument whose rows both overlap the second argument.
C9_Witness ==
    /\ BboxesIouDone /\ call[3]
    /\ Len(args.A) = 2
    /\ ret[1][1].num > 0 /\ ret[2][1].num > 0 /\ ret[1][1] # ret[2][1]
    /\ bufs = args

\* C10: on corner-form inputs matrix_iou's masked product and bboxes_iou's
\* product of clamped extents are the same intersection area, so the two
\* quotients have the same numerator and differ in the denominator by the
\* 1e-12 alone.
C10_SameIntersection ==
    MatrixIouDone =>
      \A i \in Rows(args.A) : \A j \in Rows(args.B) :
         LET q == bboxes_iou(args.A, args.B, TRUE, FALSE).ret[i][j]
         IN  /\ ret[i][j].num = q.num
             /\ ret[i][j].den = q.den
             /\ ret[i][j].eps = 1 /\ q.eps = 0

\* Boxes apart in both axes: the unmasked product is positive, the area 0.
C10_Witness ==
    /\ MatrixIouDone
    /\ args.A[1][3] < args.B[1][1] /\ args.A[1][4] < args.B[1][2]
    /\ NonDegenerate(args.A[1], TRUE)
    /\ Prod2(VSub(<<args.A[1][3], args.A[1][4]>>, <<args.B[1][1], args.B[1][2]>>)) > 0
    /\ ret[1][1].num = 0

\* ------------------------------------------------------------ conversions
\* The inverse reconstructions, on a converted row (values in half units).
FromXywh(r) == <<r[1], r[2], r[1] + r[3], r[2] + r[4]>>
FromCxcywh(r) ==
    <<r[1] - r[3] \div 2, r[2] - r[4] \div 2, r[1] + r[3] \div 2, r[2] + r[4] \div 2>>
\* Width and height of an original corner row are both even.
EvenExtents(r) == (r[3] - r[1]) % 4 = 0 /\ (r[4] - r[2]) % 4 = 0

\* C7 as stated: both round trips reproduce the original corners exactly,
\* also in an integer buffer with odd width or height.
C7_RoundTrip ==
    /\ call = <<"xyxy2xywh">> =>
          \A i \in 1..Len(args.rows) : FromXywh(ret.rows[i]) = args.rows[i]
    /\ call = <<"xyxy2cxcywh">> =>
          \A i \in 1..Len(args.rows) : FromCxcywh(ret.rows[i]) = args.rows[i]

\* C7 amended: the xyxy2xywh round trip is exact in either buffer; the
\* xyxy2cxcywh round trip is exact in a floating buffer, and in an integer
\* buffer exactly for the boxes whose width and height are both even (an odd
\* extent leaves a truncated centre, and the reconstruction is off).
C7_RoundTripAmended ==
    /\ call = <<"xyxy2xywh">> =>
          \A i \in 1..Len(args.rows) : FromXywh(ret.rows[i]) = args.rows[i]
    /\ call = <<"xyxy2cxcywh">> =>
          \A i \in 1..Len(args.rows) :
             (FromCxcywh(ret.rows[i]) = args.rows[i])
                <=> (args.dtype = "float" \/ EvenExtents(args.rows[i]))

\* A floating buffer, a box of odd width, the round trip exact.
C7_Witness ==
    /\ call = <<"xyxy2cxcywh">> /\ args.dtype = "float"
    /\ args.rows[1][3] - args.rows[1][1] = 2 /\ args.rows[1][4] - args.rows[1][2] = 6
    /\ ret.rows[1][1] % 2 = 1
    /\ FromCxcywh(ret.rows[1]) = args.rows[1]

\* ------------------------------------------------------ adjust_lmks_anns
LmksDone == call = <<"adjust_lmks_anns">>
\* Point k (0-based) of row j: before the call, transformed, and as returned.
Original(j, k) == <<args.landmarks[j][2 * k + 1], args.landmarks[j][2 * k + 2]>>
Moved(j, k) == <<Original(j, k)[1] * args.scale2 + 2 * args.padw,
                 Original(j, k)[2] * args.scale2 + 2 * args.padh>>
Returned(j, k) == <<ret[j][2 * k + 1], ret[j][2 * k + 2]>>
Inside(p) == /\ 0 <= p[1] /\ p[1] <= 2 * args.w_max
             /\ 0 <= p[2] /\ p[2] <= 2 * args.h_max

\* C8: a point with original x <= 0 or y <= 0 is returned as (-1, -1)
\* whatever the scale and pads; a point whose transformed position is outside
\* [0, w_max] x [0, h_max] is returned as (-1, -1); a point with both original
\* coordinates > 0 and a transformed position inside is returned transformed.
C8_Landmarks ==
    LmksDone =>
      \A j \in 1..Len(args.landmarks) : \A k \in 0..(Len(args.landmarks[j]) \div 2 - 1) :
         /\ (Original(j, k)[1] <= 0 \/ Original(j, k)[2] <= 0) => Returned(j, k) = <<-2, -2>>
         /\ ~Inside(Moved(j, k)) => Returned(j, k) = <<-2, -2>>
         /\ (Original(j, k)[1] > 0 /\ Original(j, k)[2] > 0 /\ Inside(Moved(j, k)))
               => Returned(j, k) = Moved(j, k)

\* A point with x = 0 that the pad moves inside the region is still (-1, -1),
\* beside a valid point returned at a half-unit position.
C8_Witness ==
    /\ LmksDone
    /\ Original(1, 0)[1] = 0 /\ Original(1, 0)[2] > 0 /\ Inside(Moved(1, 0))
    /\ Moved(1, 0)[1] > 0
    /\ Returned(1, 0) = <<-2, -2>>
    /\ Original(1, 1)[1] > 0 /\ Original(1, 1)[2] > 0
    /\ Returned(1, 1) = Moved(1, 1) /\ Moved(1, 1)[1] % 2 = 1

====
